---- MODULE Spec2Model ----
(***************************************************************************)
(* A model of cargo-mobile's Android NDK support: the NDK version value,   *)
(* the toolchain environment (ndk.rs), the target registry and the        *)
(* per-target check/build/placement pipeline (target.rs) and the command   *)
(* driver that runs them (cargo-android.rs).                               *)
(*                                                                         *)
(* Strings that the code takes apart character by character (the          *)
(* `Pkg.Revision` value) are sequences of one-character strings; strings   *)
(* that the code only builds (paths, file names) are TLA+ strings.         *)
(***************************************************************************)
EXTENDS Integers, Sequences, FiniteSets, TLC

VARIABLES
    \* --- the process environment and the filesystem -----------------------
    ndkHomeVar,     \* "unset" | "set": the NDK_HOME environment variable
    homeIsDir,      \* whether NDK_HOME names an existing directory
    props,          \* <ndk-home>/source.properties: [kind, rev]
    toolDirExists,  \* whether <ndk-home>/toolchains/llvm/prebuilt/<tag>/bin is a directory
    toolFiles,      \* the file names that are regular files in the tool directory
    jniDirs,        \* the ABIs whose <project>/app/src/main/jniLibs/<abi> exists
    links,          \* abi -> what is at jniLibs/<abi>/lib<name>.so: "none" or a symlink's target
    artifacts,      \* the build outputs (paths) that exist
    fsChanges,      \* number of outside filesystem changes so far
    \* --- one run of the command driver --------------------------------------
    pc,             \* position of the driver
    env,            \* the constructed Env: [ok, ndk_home]
    command,        \* the command being run: [mode, profile, min_api]
    queue,          \* targets (registry keys) still to process
    cur,            \* the target being processed, or "none"
    lookup,         \* the last tool lookup: its arguments, what the disk held, its return
    events,         \* the steps the run performed, in order
    result,         \* the driver's result: [kind, ...]
    cleaned,        \* the last clean_jnilibs call: [kind, removed]
    \* --- the version value on its own ---------------------------------------
    revision,       \* a `Pkg.Revision` value handed to version resolution
    resolved,       \* what version resolution returned for it
    shown,          \* what Display produced for a Version
    \* --- the target registry on its own -------------------------------------
    TARGETS,        \* the OnceCell behind Target::all(): [set, map]
    asked,          \* the registry calls made so far, each with what it returned
    \* --- the build of the program --------------------------------------------
    host,           \* the host the program is compiled for: [os, width]
    \* --- repeated calls on one Env --------------------------------------------
    before          \* what the lookup now repeated returned the time before

vars == << ndkHomeVar, homeIsDir, props, toolDirExists, toolFiles, jniDirs, links,
           artifacts, fsChanges, pc, env, command, queue, cur, lookup, events,
           result, cleaned, revision, resolved, shown, TARGETS, asked, host, before >>

fsVars == << ndkHomeVar, homeIsDir, props, toolDirExists, toolFiles, jniDirs, links,
             artifacts, fsChanges >>

runVars == << pc, env, command, queue, cur, lookup, events, result >>

versionVars == << revision, resolved, shown >>

registryVars == << TARGETS, asked >>

-----------------------------------------------------------------------------
(* Bounds of the model *)

\* longest enumerated `Pkg.Revision` value, in characters
MaxRevLen == 4

\* largest major version handed to Display directly
MaxMajor == 2

\* largest minor version handed to Display directly (26 and 27 are past 'z')
MaxMinor == 27

\* targets named on one command line
MaxTargets == 1

\* outside filesystem changes during one run
MaxFsChanges == 1

\* registry calls in one behaviour
MaxAsked == 2

-----------------------------------------------------------------------------
(* Version (ndk.rs) *)

MIN_NDK_VERSION == [major |-> 19, minor |-> 0]

\* derive(PartialOrd, Ord) on struct Version {major, minor}: lexicographic
\* in declaration order
VersionGE(a, b) ==
    \/ a.major > b.major
    \/ a.major = b.major /\ a.minor >= b.minor

Letters == << "a", "b", "c", "d", "e", "f", "g", "h", "i", "j", "k", "l", "m",
              "n", "o", "p", "q", "r", "s", "t", "u", "v", "w", "x", "y", "z" >>

\* the letter numbered from one: 1 is 'a'
LetterNthMinusOne(n) ==
    IF n >= 1 /\ n - 1 < Len(Letters) THEN [some |-> TRUE, ch |-> Letters[n]]
    ELSE [some |-> FALSE, ch |-> ""]

\* (b'a'..=b'z').map(char::from).nth(n): the element at zero-based index n
LetterNth(n) ==
    IF n < Len(Letters) THEN [some |-> TRUE, ch |-> Letters[n + 1]]
    ELSE [some |-> FALSE, ch |-> ""]

\* impl Display for Version: "r<major>", then for minor /= 0 the letter
\* nth(minor); .expect() panics when there is none
Version_fmt(v) ==
    IF v.minor = 0
    THEN [kind |-> "ok", str |-> "r" \o ToString(v.major)]
    ELSE LET l == LetterNth(v.minor)
         IN  IF l.some
             THEN [kind |-> "ok", str |-> ("r" \o ToString(v.major)) \o l.ch]
             ELSE [kind |-> "panic", str |-> ""]

-----------------------------------------------------------------------------
(* Pkg.Revision parsing (ndk.rs, Env::version) *)

Digits == << "0", "1", "2", "3", "4", "5", "6", "7", "8", "9" >>

IsDigit(c) == \E i \in 1..Len(Digits) : Digits[i] = c

DigitVal(c) == (CHOOSE i \in 1..Len(Digits) : Digits[i] = c) - 1

\* u32::MAX = 4294967295, as quotient and remainder by ten
U32MaxDiv10 == 429496729
U32MaxMod10 == 5

NoValue == [ok |-> FALSE, val |-> 0]

\* checked_mul(10) then checked_add(d) over the digits, left to right
RECURSIVE Accumulate(_, _)
Accumulate(s, acc) ==
    IF s = << >> THEN [ok |-> TRUE, val |-> acc]
    ELSE IF ~IsDigit(Head(s)) THEN NoValue
    ELSE LET d == DigitVal(Head(s))
         IN  IF acc > U32MaxDiv10 \/ (acc = U32MaxDiv10 /\ d > U32MaxMod10)
             THEN NoValue
             ELSE Accumulate(Tail(s), acc * 10 + d)

\* str::parse::<u32>: an optional leading '+', then at least one decimal
\* digit, nothing else, value at most u32::MAX
ParseU32(s) ==
    IF s = << >> THEN NoValue
    ELSE LET body == IF Head(s) = "+" THEN Tail(s) ELSE s
         IN  IF body = << >> THEN NoValue ELSE Accumulate(body, 0)

\* str::split('.'): the pieces between the dots; n dots give n + 1 pieces,
\* the empty string gives one empty piece
RECURSIVE SplitDot(_)
SplitDot(s) ==
    IF \A i \in 1..Len(s) : s[i] /= "." THEN << s >>
    ELSE LET k == CHOOSE i \in 1..Len(s) :
                     s[i] = "." /\ \A j \in 1..(i - 1) : s[j] /= "."
         IN  << SubSeq(s, 1, k - 1) >> \o SplitDot(SubSeq(s, k + 1, Len(s)))

\* Iterator::take(n)
Take(seq, n) == SubSeq(seq, 1, IF Len(seq) < n THEN Len(seq) ELSE n)

NoVersion == [major |-> 0, minor |-> 0]

\* resolution that parses every component
ParseRevisionNoTake(rev) ==
    LET comps == SplitDot(rev)
        bad   == { i \in 1..Len(comps) : ~ParseU32(comps[i]).ok }
    IN  IF bad /= {}
        THEN [kind |-> "ComponentNotNumerical", version |-> NoVersion,
              component |-> comps[CHOOSE i \in bad : \A j \in bad : i <= j]]
        ELSE IF Len(comps) = 2
        THEN [kind |-> "Ok", component |-> << >>,
              version |-> [major |-> ParseU32(comps[1]).val,
                           minor |-> ParseU32(comps[2]).val]]
        ELSE [kind |-> "TooFewComponents", version |-> NoVersion, component |-> << >>]

\* resolution that counts the components before it parses them
ParseRevisionLenFirst(rev) ==
    LET comps == Take(SplitDot(rev), 2)
        bad   == { i \in 1..Len(comps) : ~ParseU32(comps[i]).ok }
    IN  IF Len(comps) < 2
        THEN [kind |-> "TooFewComponents", version |-> NoVersion, component |-> << >>]
        ELSE IF bad /= {}
        THEN [kind |-> "ComponentNotNumerical", version |-> NoVersion,
              component |-> comps[CHOOSE i \in bad : \A j \in bad : i <= j]]
        ELSE [kind |-> "Ok", component |-> << >>,
              version |-> [major |-> ParseU32(comps[1]).val,
                           minor |-> ParseU32(comps[2]).val]]

\* the part of Env::version after the key was found: split, take(2), parse
\* each, collect into Result (the first failure wins), then the length test
ParseRevision(rev) ==
    LET comps == Take(SplitDot(rev), 2)
        bad   == { i \in 1..Len(comps) : ~ParseU32(comps[i]).ok }
    IN  IF bad /= {}
        THEN [kind |-> "ComponentNotNumerical", version |-> NoVersion,
              component |-> comps[CHOOSE i \in bad : \A j \in bad : i <= j]]
        ELSE IF Len(comps) = 2
        THEN [kind |-> "Ok", component |-> << >>,
              version |-> [major |-> ParseU32(comps[1]).val,
                           minor |-> ParseU32(comps[2]).val]]
        ELSE [kind |-> "TooFewComponents", version |-> NoVersion, component |-> << >>]

\* Env::version: open source.properties, read it, get "Pkg.Revision", parse
Env_version(p) ==
    CASE p.kind = "absent"    -> [kind |-> "OpenFailed", version |-> NoVersion, component |-> << >>]
      [] p.kind = "malformed" -> [kind |-> "ParseFailed", version |-> NoVersion, component |-> << >>]
      [] p.kind = "nokey"     -> [kind |-> "VersionMissing", version |-> NoVersion, component |-> << >>]
      [] OTHER                -> ParseRevision(p.rev)

-----------------------------------------------------------------------------
(* The version value on its own: resolution and display as pure functions *)

\* the characters enumerated `Pkg.Revision` values are made of
RevChars == { "0", "1", "9", ".", "x", "+" }

RECURSIVE SeqsUpTo(_, _)
SeqsUpTo(S, n) ==
    IF n = 0 THEN { << >> }
    ELSE LET shorter == SeqsUpTo(S, n - 1)
         IN  shorter \cup { Append(s, c) : s \in { t \in shorter : Len(t) = n - 1 }, c \in S }

\* the `Pkg.Revision` values of the installations a run starts from: NDK
\* r21e, r19 and r18b, and three damaged ones
InstalledRevisions ==
    { << "2", "1", ".", "4", ".", "7", "0", "7", "5", "5", "2", "9" >>,
      << "1", "9", ".", "0", ".", "5", "2", "3", "2", "1", "3", "3" >>,
      << "1", "8", ".", "1", ".", "5", "0", "6", "3", "0", "4", "5" >>,
      << "1", "9" >>,
      << "r", "2", "1", "e" >>,
      << "2", "1", ".", "b", "e", "t", "a" >> }

\* further values: a pre-release qualifier, minors at and past 'z', and
\* components at and past u32::MAX + 1
NamedRevisions ==
    InstalledRevisions \cup
    { << "2", "1", ".", "4", ".", "7", "0", "7", "5", "5", "2", "9", "-", "b", "e", "t", "a", "1" >>,
      << "2", "0", ".", "2", "5", ".", "1" >>,
      << "2", "0", ".", "2", "6", ".", "1" >>,
      << "4", "2", "9", "4", "9", "6", "7", "2", "9", "6", ".", "0" >>,
      << "2", "1", ".", "4", "2", "9", "4", "9", "6", "7", "2", "9", "6" >> }

Revisions == SeqsUpTo(RevChars, MaxRevLen) \cup NamedRevisions

Versions == [major : 0..MaxMajor \cup {19, 21}, minor : 0..MaxMinor]

NoResolution == [kind |-> "none", version |-> NoVersion, component |-> << >>]
Pending == [kind |-> "pending", version |-> NoVersion, component |-> << >>]
NoShown == [of |-> NoVersion, out |-> [kind |-> "none", str |-> ""]]
ToShow(v) == [of |-> v, out |-> [kind |-> "pending", str |-> ""]]

InitVersionVars ==
    /\ revision = << >>
    /\ resolved = NoResolution
    /\ shown = NoShown

\* version resolution applied to the revision value; a Version it yields
\* is then displayed
ResolveRevision ==
    /\ resolved.kind = "pending"
    /\ resolved' = ParseRevision(revision)
    /\ shown' = IF resolved'.kind = "Ok" THEN ToShow(resolved'.version) ELSE shown
    /\ UNCHANGED << fsVars, runVars, cleaned, revision, registryVars, host, before >>

\* Display applied to the Version
DisplayVersion ==
    /\ shown.out.kind = "pending"
    /\ shown' = [shown EXCEPT !.out = Version_fmt(shown.of)]
    /\ UNCHANGED << fsVars, runVars, cleaned, revision, resolved, registryVars, host, before >>

-----------------------------------------------------------------------------
(* Target registry (target.rs) *)

None == [some |-> FALSE, val |-> ""]
Some(x) == [some |-> TRUE, val |-> x]

\* the keys of the BTreeMap, in its iteration order
Keys == << "aarch64", "armv7", "i686", "x86_64" >>

KeySet == { Keys[i] : i \in 1..Len(Keys) }

Target_all ==
    [ k \in KeySet |->
        CASE k = "aarch64" ->
               [triple |-> "aarch64-linux-android",
                clang_triple_override |-> None,
                binutils_triple_override |-> None,
                abi |-> "arm64-v8a", arch |-> "arm64"]
          [] k = "armv7" ->
               [triple |-> "armv7-linux-androideabi",
                clang_triple_override |-> Some("armv7a-linux-androideabi"),
                binutils_triple_override |-> Some("arm-linux-androideabi"),
                abi |-> "armeabi-v7a", arch |-> "arm"]
          [] k = "i686" ->
               [triple |-> "i686-linux-android",
                clang_triple_override |-> None,
                binutils_triple_override |-> None,
                abi |-> "x86", arch |-> "x86"]
          [] k = "x86_64" ->
               [triple |-> "x86_64-linux-android",
                clang_triple_override |-> None,
                binutils_triple_override |-> None,
                abi |-> "x86_64", arch |-> "x86_64"] ]

\* Option::unwrap_or_else
UnwrapOr(opt, default) == IF opt.some THEN opt.val ELSE default

clang_triple(t) == UnwrapOr(t.clang_triple_override, t.triple)

\* a binutils triple that ignores the override
binutils_triple_canonical(t) == t.triple

binutils_triple(t) == UnwrapOr(t.binutils_triple_override, t.triple)

Abis == { Target_all[k].abi : k \in KeySet }

\* the OnceCell before its first use
Unset == [set |-> FALSE, map |-> << >>]

\* OnceCell::get_or_init with the closure of Target::all
get_or_init(cell) == IF cell.set THEN cell ELSE [set |-> TRUE, map |-> Target_all]

NoTarget ==
    [triple |-> "", clang_triple_override |-> None, binutils_triple_override |-> None,
     abi |-> "", arch |-> ""]

\* Option<&Target>: the entry found, with its key
NoneTarget == [some |-> FALSE, key |-> "", target |-> NoTarget]
SomeTarget(k, t) == [some |-> TRUE, key |-> k, target |-> t]

\* Iterator::find over the values of map m, in key order, from the i-th on
RECURSIVE find(_, _, _, _)
find(m, i, field, wanted) ==
    IF i > Len(Keys) THEN NoneTarget
    ELSE IF m[Keys[i]][field] = wanted THEN SomeTarget(Keys[i], m[Keys[i]])
    ELSE find(m, i + 1, field, wanted)

\* a lookup that compares the architecture name
for_abi_by_arch(m, abi) == find(m, 1, "arch", abi)

\* Target::for_abi, on the map all() returned
for_abi(m, abi) == find(m, 1, "abi", abi)

\* the strings for_abi is asked about: the ABI names, and keys, architecture
\* names, triples and misspellings that are no ABI name
AbiQueries ==
    Abis \cup { "nonexistent-abi", "", "aarch64", "armv7", "i686", "arm64", "arm",
                "ARM64-V8A", "aarch64-linux-android" }

InitRegistryVars ==
    /\ TARGETS = Unset
    /\ asked = << >>

\* a call of Target::all()
CallAll ==
    /\ Len(asked) < MaxAsked
    /\ TARGETS' = get_or_init(TARGETS)
    /\ asked' = Append(asked, [fn |-> "all", abi |-> "", all |-> TARGETS'.map,
                               ret |-> NoneTarget])
    /\ UNCHANGED << fsVars, runVars, cleaned, versionVars, host, before >>

\* a call of Target::for_abi(abi)
CallForAbi ==
    /\ Len(asked) < MaxAsked
    /\ \E abi \in AbiQueries :
          /\ TARGETS' = get_or_init(TARGETS)
          /\ asked' = Append(asked, [fn |-> "for_abi", abi |-> abi, all |-> TARGETS'.map,
                                     ret |-> for_abi(TARGETS'.map, abi)])
    /\ UNCHANGED << fsVars, runVars, cleaned, versionVars, host, before >>

-----------------------------------------------------------------------------
(* Paths *)

\* Path::join of a relative path
Join(base, rel) == (base \o "/") \o rel

\* the value of NDK_HOME when it is set
NdkHome == "/opt/ndk"

\* the host the program was compiled for
BuildHost == [os |-> "linux", width |-> 64]

\* the hosts a build can be made for: target_os and target_pointer_width
Hosts == [os : { "macos", "linux", "windows" }, width : { 32, 64 }]

\* host_tag(): one definition per #[cfg(...)]; where no cfg matches there is
\* no function
host_tag(h) ==
    CASE h.os = "macos" -> Some("darwin-x86_64")
      [] h.os = "linux" -> Some("linux-x86_64")
      [] h.os = "window" /\ h.width = 32 -> Some("windows")
      [] h.os = "window" /\ h.width = 64 -> Some("windows-x86_64")
      [] OTHER -> None

\* Config: project_dir(), app().root_dir(), app().name_snake(), min_sdk_version()
ProjectDir == "/work/demo/gen/android"
AppRoot == "/work/demo"
AppNameSnake == "demo_app"
MinApis == { 21, 24 }

so_name == ("lib" \o AppNameSnake) \o ".so"

Profiles == { "debug", "release" }

\* Profile::as_str
Profile_as_str(profile) == profile

\* App::prefix_path: the path below the app's root directory
prefix_path(rel) == Join(AppRoot, rel)

CargoModes == { "check", "build" }

\* CargoMode::as_str
CargoMode_as_str(mode) ==
    CASE mode = "check" -> "check"
      [] mode = "build" -> "build"

Compilers == { "Clang", "Clangxx" }

Compiler_as_str(c) ==
    CASE c = "Clang" -> "clang"
      [] c = "Clangxx" -> "clang++"

Binutils == { "Ar", "Ld" }

Binutil_as_str(b) ==
    CASE b = "Ar" -> "ar"
      [] b = "Ld" -> "ld"

-----------------------------------------------------------------------------
(* Tool resolution (ndk.rs) *)

\* Ok(path); probed lists the paths whose is_dir / is_file was taken
ToolOk(path) == [ok |-> TRUE, path |-> path, name |-> "", probed |-> << >>]

\* MissingToolError {name, tried_path}
MissingTool(name, tried) == [ok |-> FALSE, path |-> tried, name |-> name, probed |-> << >>]

\* the return r of a call that, after the tests in `earlier`, tested path p
Tested(earlier, p, r) == [r EXCEPT !.probed = Append(earlier, p)]

ToolDirPath ==
    Join(NdkHome, ("toolchains/llvm/prebuilt/" \o host_tag(host).val) \o "/bin")

\* the bin directory of an installed NDK (r19 and later): clang wrappers are
\* named by clang triple and API level, binutils by binutils triple
NdkClangTriples ==
    { "aarch64-linux-android", "armv7a-linux-androideabi",
      "i686-linux-android", "x86_64-linux-android" }

NdkBinutilsTriples ==
    { "aarch64-linux-android", "arm-linux-androideabi",
      "i686-linux-android", "x86_64-linux-android" }

NdkBinFiles ==
    { Join(ToolDirPath, (t \o ToString(api)) \o c) :
        t \in NdkClangTriples, api \in MinApis, c \in { "-clang", "-clang++" } }
    \cup { Join(ToolDirPath, t \o b) : t \in NdkBinutilsTriples, b \in { "-ar", "-ld" } }

\* is_file answered from the files that were there when the Env was made
IsFileCached(path) == path \in NdkBinFiles

\* Path::is_file for a path in the tool directory
IsFile(path) == toolDirExists /\ path \in toolFiles

\* a tool directory taken to be there, without the is_dir test
tool_dir_unchecked == ToolOk(ToolDirPath)

\* Env::tool_dir
tool_dir ==
    Tested(<< >>, ToolDirPath,
           IF toolDirExists THEN ToolOk(ToolDirPath)
           ELSE MissingTool("literally all of them", ToolDirPath))

\* a compiler file name without the API level
compiler_path_no_api(compiler, triple, min_api) ==
    LET dir == tool_dir
    IN  IF ~dir.ok THEN dir
        ELSE LET path == Join(dir.path, (triple \o "-") \o Compiler_as_str(compiler))
             IN  Tested(dir.probed, path,
                        IF IsFile(path) THEN ToolOk(path)
                        ELSE MissingTool(Compiler_as_str(compiler), path))

\* Env::compiler_path
compiler_path(compiler, triple, min_api) ==
    LET dir == tool_dir
    IN  IF ~dir.ok THEN dir
        ELSE LET path == Join(dir.path,
                              ((triple \o ToString(min_api)) \o "-") \o Compiler_as_str(compiler))
             IN  Tested(dir.probed, path,
                        IF IsFile(path) THEN ToolOk(path)
                        ELSE MissingTool(Compiler_as_str(compiler), path))

\* Env::binutil_path
binutil_path(binutil, triple) ==
    LET dir == tool_dir
    IN  IF ~dir.ok THEN dir
        ELSE LET path == Join(dir.path, (triple \o "-") \o Binutil_as_str(binutil))
             IN  Tested(dir.probed, path,
                        IF IsFile(path) THEN ToolOk(path)
                        ELSE MissingTool(Binutil_as_str(binutil), path))

-----------------------------------------------------------------------------
(* Artifact placement paths (target.rs) *)

\* Target::get_jnilibs_subdir
get_jnilibs_subdir(t) == Join(ProjectDir, "app/src/main/jniLibs/" \o t.abi)

\* the symlink's place: get_jnilibs_subdir(config).join(so_name(config))
LinkPath(t) == Join(get_jnilibs_subdir(t), so_name)

\* the build output symlink_lib looks for
SourcePath(t, profile) ==
    prefix_path(((("target/" \o t.triple) \o "/") \o Profile_as_str(profile) \o "/") \o so_name)

AllSources == { SourcePath(Target_all[k], p) : k \in KeySet, p \in Profiles }

\* the output of a target that is no longer built
StaleSource == prefix_path("target/armv7-linux-androideabi/debug/libold_name.so")

-----------------------------------------------------------------------------
(* Values of the run's variables *)

NoEnv == [ok |-> FALSE, ndk_home |-> ""]

NoCommand == [mode |-> "none", profile |-> "debug", min_api |-> 0]

NoLookup == [kind |-> "none", tool |-> "", triple |-> "", api |-> 0, key |-> "",
             dirThere |-> FALSE, filesThere |-> {}, ret |-> ToolOk("")]

NoResult == [kind |-> "none", wrap |-> "", err |-> "", mode |-> "", name |-> "",
             path |-> "", have |-> NoVersion, need |-> NoVersion]

NoClean == [kind |-> "none", removed |-> {}, before |-> [a \in Abis |-> "none"]]

Event(step, key, ok) == [step |-> step, key |-> key, ok |-> ok]

\* Error::EnvInitFailed(ndk::Error)
EnvInitFailed(err, have, need) ==
    [NoResult EXCEPT !.kind = "EnvInitFailed", !.err = err, !.have = have, !.need = need]

\* Error::CheckFailed(CompileLibError) and
\* Error::BuildFailed(BuildError::BuildFailed(CompileLibError))
CompileFailed(mode, err, name, path) ==
    [NoResult EXCEPT !.kind = IF mode = "check" THEN "CheckFailed" ELSE "BuildFailed",
                     !.wrap = IF mode = "check" THEN "" ELSE "BuildFailed",
                     !.err = err, !.name = name, !.path = path,
                     !.mode = IF err = "CargoFailed" THEN CargoMode_as_str(mode) ELSE ""]

\* Error::BuildFailed(BuildError::LibSymlinkFailed(LibSymlinkError))
PlacementFailed(err, path) ==
    [NoResult EXCEPT !.kind = "BuildFailed", !.wrap = "LibSymlinkFailed",
                     !.err = err, !.path = path]

Finished(r) == [NoResult EXCEPT !.kind = r]

-----------------------------------------------------------------------------
(* Env::new and the command driver (ndk.rs, cargo-android.rs) *)

\* construction without the minimum-version test
Env_new_no_gate(var, isDir, p) ==
    IF var = "unset" THEN [ok |-> FALSE, err |-> "NdkHomeNotSet", have |-> NoVersion, opened |-> FALSE]
    ELSE IF ~isDir THEN [ok |-> FALSE, err |-> "NdkHomeNotADir", have |-> NoVersion, opened |-> FALSE]
    ELSE LET v == Env_version(p)
         IN  IF v.kind /= "Ok"
             THEN [ok |-> FALSE, err |-> v.kind, have |-> NoVersion, opened |-> TRUE]
             ELSE [ok |-> TRUE, err |-> "", have |-> v.version, opened |-> TRUE]

\* construction that takes NDK_HOME as it is, without the is_dir test
Env_new_dir_unchecked(var, isDir, p) ==
    IF var = "unset" THEN [ok |-> FALSE, err |-> "NdkHomeNotSet", have |-> NoVersion, opened |-> FALSE]
    ELSE LET v == Env_version(p)
         IN  IF v.kind /= "Ok"
             THEN [ok |-> FALSE, err |-> v.kind, have |-> NoVersion, opened |-> TRUE]
             ELSE IF VersionGE(v.version, MIN_NDK_VERSION)
             THEN [ok |-> TRUE, err |-> "", have |-> v.version, opened |-> TRUE]
             ELSE [ok |-> FALSE, err |-> "VersionTooLow", have |-> v.version, opened |-> TRUE]

\* Env::new: the Env, or the ndk::Error
Env_new(var, isDir, p) ==
    IF var = "unset" THEN [ok |-> FALSE, err |-> "NdkHomeNotSet", have |-> NoVersion, opened |-> FALSE]
    ELSE IF ~isDir THEN [ok |-> FALSE, err |-> "NdkHomeNotADir", have |-> NoVersion, opened |-> FALSE]
    ELSE LET v == Env_version(p)
         IN  IF v.kind /= "Ok"
             THEN [ok |-> FALSE, err |-> v.kind, have |-> NoVersion, opened |-> TRUE]
             ELSE IF VersionGE(v.version, MIN_NDK_VERSION)
             THEN [ok |-> TRUE, err |-> "", have |-> v.version, opened |-> TRUE]
             ELSE [ok |-> FALSE, err |-> "VersionTooLow", have |-> v.version, opened |-> TRUE]

\* Input::exec, line 161: let env = Env::new().map_err(Error::EnvInitFailed)?
EnvNew ==
    /\ pc = "start"
    /\ LET e == Env_new(ndkHomeVar, homeIsDir, props)
           opened == IF e.opened THEN << Event("open_props", "", TRUE) >> ELSE << >>
       IN  /\ events' = events \o opened
           /\ IF e.ok
              THEN /\ env' = [ok |-> TRUE, ndk_home |-> NdkHome]
                   /\ pc' = "dispatch"
                   /\ result' = result
              ELSE /\ env' = env
                   /\ pc' = "done"
                   /\ result' = EnvInitFailed(e.err, e.have,
                                   IF e.err = "VersionTooLow" THEN MIN_NDK_VERSION ELSE NoVersion)
    /\ UNCHANGED << fsVars, command, queue, cur, lookup, cleaned, versionVars, registryVars, host, before >>

TargetLists == { s \in SeqsUpTo(KeySet, MaxTargets) : s /= << >> }

\* Input::exec, `match command`: Check and Build name their targets; the
\* other commands (init, open, run, st, list) have bodies outside these files
Dispatch ==
    /\ pc = "dispatch"
    /\ \/ \E targets \in TargetLists :
             /\ command' = [NoCommand EXCEPT !.mode = "check"]
             /\ queue' = targets
             /\ pc' = "config"
             /\ UNCHANGED << events, result >>
       \/ \E targets \in TargetLists, profile \in Profiles :
             /\ command' = [NoCommand EXCEPT !.mode = "build", !.profile = profile]
             /\ queue' = targets
             /\ pc' = "config"
             /\ UNCHANGED << events, result >>
       \/ /\ command' = [NoCommand EXCEPT !.mode = "other"]
          /\ events' = Append(events, Event("body", "", TRUE))
          /\ result' = Finished("Ok")
          /\ pc' = "done"
          /\ UNCHANGED queue
    /\ UNCHANGED << fsVars, env, cur, lookup, cleaned, versionVars, registryVars, host, before >>

\* with_config_and_metadata: the configuration and the metadata are loaded
\* before the closure runs, and either load can fail
LoadConfig ==
    /\ pc = "config"
    /\ \/ \E api \in MinApis :
             /\ command' = [command EXCEPT !.min_api = api]
             /\ pc' = "target"
             /\ UNCHANGED result
       \/ \E failure \in { "ConfigFailed", "MetadataFailed" } :
             /\ result' = Finished(failure)
             /\ pc' = "done"
             /\ UNCHANGED command
    /\ UNCHANGED << fsVars, env, queue, cur, lookup, events, cleaned, versionVars, registryVars, host, before >>

\* call_for_targets_with_fallback: the closure is called for each target in
\* the order given, and the first error ends the loop
NextTarget ==
    /\ pc = "target"
    /\ IF queue = << >>
       THEN /\ result' = Finished("Ok")
            /\ pc' = "done"
            /\ cur' = "none"
            /\ UNCHANGED queue
       ELSE /\ cur' = Head(queue)
            /\ queue' = Tail(queue)
            /\ pc' = "ar"
            /\ UNCHANGED result
    /\ UNCHANGED << fsVars, env, command, lookup, events, cleaned, versionVars, registryVars, host, before >>

-----------------------------------------------------------------------------
(* Target::compile_lib (target.rs): the three tool paths are resolved while
   the command is put together, in the order archiver, C compiler, C++
   compiler; then the command is run and waited for *)

CurTarget == Target_all[cur]

Looked(kind, tool, triple, api, ret) ==
    [kind |-> kind, tool |-> tool, triple |-> triple, api |-> api, key |-> cur,
     dirThere |-> toolDirExists, filesThere |-> toolFiles, ret |-> ret]

\* a resolution step that goes on whatever the lookup returned
AfterLookupUnchecked(step, ret, next) ==
    /\ events' = Append(events, Event(step, cur, ret.ok))
    /\ pc' = next
    /\ UNCHANGED result

\* what a resolution step does with the lookup's return: `?` after
\* map_err(CompileLibError::MissingTool)
AfterLookup(step, ret, next) ==
    /\ events' = Append(events, Event(step, cur, ret.ok))
    /\ IF ret.ok
       THEN /\ pc' = next
            /\ UNCHANGED result
       ELSE /\ pc' = "done"
            /\ result' = CompileFailed(command.mode, "MissingTool", ret.name, ret.path)

\* "TARGET_AR": binutil_path(Binutil::Ar, self.binutils_triple())
ResolveAr ==
    /\ pc = "ar"
    /\ LET triple == binutils_triple(CurTarget)
           ret == binutil_path("Ar", triple)
       IN  /\ lookup' = Looked("binutil", "Ar", triple, 0, ret)
           /\ AfterLookup("ar", ret, "cc")
    /\ UNCHANGED << fsVars, env, command, queue, cur, cleaned, versionVars, registryVars, host, before >>

\* "TARGET_CC": compiler_path(Compiler::Clang, self.clang_triple(), min_sdk_version)
ResolveCc ==
    /\ pc = "cc"
    /\ LET triple == clang_triple(CurTarget)
           ret == compiler_path("Clang", triple, command.min_api)
       IN  /\ lookup' = Looked("compiler", "Clang", triple, command.min_api, ret)
           /\ AfterLookup("cc", ret, "cxx")
    /\ UNCHANGED << fsVars, env, command, queue, cur, cleaned, versionVars, registryVars, host, before >>

\* "TARGET_CXX": compiler_path(Compiler::Clangxx, self.clang_triple(), min_sdk_version)
ResolveCxx ==
    /\ pc = "cxx"
    /\ LET triple == clang_triple(CurTarget)
           ret == compiler_path("Clangxx", triple, command.min_api)
       IN  /\ lookup' = Looked("compiler", "Clangxx", triple, command.min_api, ret)
           /\ AfterLookup("cxx", ret, "spawn")
    /\ UNCHANGED << fsVars, env, command, queue, cur, cleaned, versionVars, registryVars, host, before >>

\* run_and_wait, first half: the cargo process is started, or cannot be
Spawn ==
    /\ pc = "spawn"
    /\ \/ /\ events' = Append(events, Event("spawn", cur, TRUE))
          /\ pc' = "wait"
          /\ UNCHANGED result
       \/ /\ events' = Append(events, Event("spawn", cur, FALSE))
          /\ pc' = "done"
          /\ result' = CompileFailed(command.mode, "CargoFailed", "", "")
    /\ UNCHANGED << fsVars, env, command, queue, cur, lookup, cleaned, versionVars, registryVars, host, before >>

\* a build that counts as complete when compile_lib returned Ok
AfterCompileSkipPlacement(mode) == "target"

\* where Target::check and Target::build go after compile_lib returned Ok
AfterCompile(mode) == IF mode = "build" THEN "place" ELSE "target"

\* run_and_wait, second half: the process exits. A successful `cargo build`
\* normally leaves the library at the source path, but may leave nothing
\* there; `cargo check` writes no library
Wait ==
    /\ pc = "wait"
    /\ \/ /\ events' = Append(events, Event("wait", cur, TRUE))
          /\ pc' = AfterCompile(command.mode)
          /\ \/ /\ command.mode = "build"
                /\ artifacts' = artifacts \cup { SourcePath(CurTarget, command.profile) }
             \/ artifacts' = artifacts
          /\ UNCHANGED result
       \/ /\ events' = Append(events, Event("wait", cur, FALSE))
          /\ pc' = "done"
          /\ result' = CompileFailed(command.mode, "CargoFailed", "", "")
          /\ UNCHANGED artifacts
    /\ UNCHANGED << ndkHomeVar, homeIsDir, props, toolDirExists, toolFiles, jniDirs,
                    links, fsChanges, env, command, queue, cur, lookup, cleaned,
                    versionVars, registryVars, host, before >>

-----------------------------------------------------------------------------
(* Target::symlink_lib (target.rs) *)

\* placement that links without testing that the source exists
symlink_lib_skip_check(t, profile, mkdirOk, lnOk) ==
    LET src == SourcePath(t, profile)
    IN  IF ~mkdirOk
        THEN [dirs |-> jniDirs, links |-> links, err |-> "JniLibsSubDirCreationFailed",
              path |-> "", steps |-> << "mkdir" >>]
        ELSE IF lnOk
             THEN [dirs |-> jniDirs \cup { t.abi }, links |-> [links EXCEPT ![t.abi] = src],
                   err |-> "", path |-> "", steps |-> << "mkdir", "exists", "symlink" >>]
             ELSE [dirs |-> jniDirs \cup { t.abi }, links |-> links, err |-> "SymlinkFailed",
                   path |-> "", steps |-> << "mkdir", "exists", "symlink" >>]

\* placement that tests the source before it creates the directory
symlink_lib_check_first(t, profile, mkdirOk, lnOk) ==
    LET src == SourcePath(t, profile)
    IN  IF src \notin artifacts
        THEN [dirs |-> jniDirs, links |-> links, err |-> "SourceMissing",
              path |-> src, steps |-> << "exists" >>]
        ELSE IF ~mkdirOk
        THEN [dirs |-> jniDirs, links |-> links, err |-> "JniLibsSubDirCreationFailed",
              path |-> "", steps |-> << "exists", "mkdir" >>]
        ELSE IF lnOk
        THEN [dirs |-> jniDirs \cup { t.abi }, links |-> [links EXCEPT ![t.abi] = src],
              err |-> "", path |-> "", steps |-> << "exists", "mkdir", "symlink" >>]
        ELSE [dirs |-> jniDirs \cup { t.abi }, links |-> links, err |-> "SymlinkFailed",
              path |-> "", steps |-> << "exists", "mkdir", "symlink" >>]

\* what symlink_lib does for target t and a profile, given whether
\* create_dir_all and ln::force_symlink succeed: the directories, the links,
\* the steps taken and the error ("" for Ok)
symlink_lib(t, profile, mkdirOk, lnOk) ==
    LET src == SourcePath(t, profile)
    IN  IF ~mkdirOk
        THEN [dirs |-> jniDirs, links |-> links, err |-> "JniLibsSubDirCreationFailed",
              path |-> "", steps |-> << "mkdir" >>]
        ELSE IF src \in artifacts
        THEN IF lnOk
             THEN [dirs |-> jniDirs \cup { t.abi }, links |-> [links EXCEPT ![t.abi] = src],
                   err |-> "", path |-> "", steps |-> << "mkdir", "exists", "symlink" >>]
             ELSE [dirs |-> jniDirs \cup { t.abi }, links |-> links, err |-> "SymlinkFailed",
                   path |-> "", steps |-> << "mkdir", "exists", "symlink" >>]
        ELSE [dirs |-> jniDirs \cup { t.abi }, links |-> links, err |-> "SourceMissing",
              path |-> src, steps |-> << "mkdir", "exists" >>]

\* Target::build after compile_lib: self.symlink_lib(config, profile)
\*     .map_err(BuildError::LibSymlinkFailed)
Place ==
    /\ pc = "place"
    /\ \E mkdirOk \in BOOLEAN, lnOk \in BOOLEAN :
          LET r == symlink_lib(CurTarget, command.profile, mkdirOk, lnOk)
              n == Len(r.steps)
          IN  /\ jniDirs' = r.dirs
              /\ links' = r.links
              /\ events' = events \o
                    [i \in 1..n |-> Event(r.steps[i], cur, i < n \/ r.err = "")]
              /\ IF r.err = ""
                 THEN /\ pc' = "target"
                      /\ UNCHANGED result
                 ELSE /\ pc' = "done"
                      /\ result' = PlacementFailed(r.err, r.path)
    /\ UNCHANGED << ndkHomeVar, homeIsDir, props, toolDirExists, toolFiles, artifacts,
                    fsChanges, env, command, queue, cur, lookup, cleaned, versionVars, registryVars, host, before >>

-----------------------------------------------------------------------------
(* Target::clean_jnilibs (target.rs) *)

\* fs::read_link succeeds: the place holds a symlink
IsSymlink(l) == l /= "none" /\ l /= "file"

\* Path::exists for a symlink's target
Exists(path) == path \in artifacts

\* the loop of clean_jnilibs from the i-th registry entry on; remove_file
\* fails at the target failAt, and `?` then leaves the loop
RECURSIVE clean_from(_, _, _, _)
clean_from(i, ls, removed, failAt) ==
    IF i > Len(Keys) THEN [kind |-> "Ok", links |-> ls, removed |-> removed]
    ELSE LET abi == Target_all[Keys[i]].abi
         IN  IF IsSymlink(ls[abi]) /\ ~Exists(ls[abi])
             THEN IF Keys[i] = failAt
                  THEN [kind |-> "Err", links |-> ls, removed |-> removed]
                  ELSE clean_from(i + 1, [ls EXCEPT ![abi] = "none"],
                                  removed \cup { abi }, failAt)
             ELSE clean_from(i + 1, ls, removed, failAt)

\* a loop that returns after the first stale link
RECURSIVE clean_first_only(_, _, _)
clean_first_only(i, ls, failAt) ==
    IF i > Len(Keys) THEN [kind |-> "Ok", links |-> ls, removed |-> {}]
    ELSE LET abi == Target_all[Keys[i]].abi
         IN  IF IsSymlink(ls[abi]) /\ ~Exists(ls[abi])
             THEN IF Keys[i] = failAt
                  THEN [kind |-> "Err", links |-> ls, removed |-> {}]
                  ELSE [kind |-> "Ok", links |-> [ls EXCEPT ![abi] = "none"],
                        removed |-> { abi }]
             ELSE clean_first_only(i + 1, ls, failAt)

clean_jnilibs_first_only(failAt) == clean_first_only(1, links, failAt)

clean_jnilibs(failAt) == clean_from(1, links, {}, failAt)

-----------------------------------------------------------------------------
(* What happens outside the run: other programs change the filesystem, and
   clean_jnilibs is called by code of the android module outside these files *)

Changing == pc /= "done" /\ fsChanges < MaxFsChanges

CleanJnilibs ==
    /\ Changing
    /\ \E failAt \in KeySet \cup { "never" } :
          LET r == clean_jnilibs(failAt)
          IN  /\ links' = r.links
              /\ cleaned' = [kind |-> r.kind, removed |-> r.removed, before |-> links]
    /\ fsChanges' = fsChanges + 1
    /\ UNCHANGED << ndkHomeVar, homeIsDir, props, toolDirExists, toolFiles, jniDirs,
                    artifacts, runVars, versionVars, registryVars, host, before >>

\* the run is resolving the tools of a target: a change of the tool
\* directory at any other time is seen by the run only here
Resolving == pc \in { "ar", "cc", "cxx" }

\* the installed tools whose names start with one of the current target's
\* triples and, for a compiler, continue with the API level
CurToolFiles ==
    { Join(ToolDirPath, (t \o ToString(command.min_api)) \o c) :
        t \in { CurTarget.triple, clang_triple(CurTarget), binutils_triple(CurTarget) }
               \cap NdkClangTriples,
        c \in { "-clang", "-clang++" } }
    \cup { Join(ToolDirPath, t \o "-ar") :
             t \in { CurTarget.triple, clang_triple(CurTarget), binutils_triple(CurTarget) }
                    \cap NdkBinutilsTriples }

\* a tool of the current target is removed from, or put back into, the tool
\* directory while the target is being processed
ToolFileChange ==
    /\ Changing
    /\ Resolving
    /\ toolDirExists
    /\ \/ \E f \in CurToolFiles \cap toolFiles : toolFiles' = toolFiles \ { f }
       \/ \E f \in CurToolFiles \ toolFiles : toolFiles' = toolFiles \cup { f }
    /\ fsChanges' = fsChanges + 1
    /\ UNCHANGED << ndkHomeVar, homeIsDir, props, toolDirExists, jniDirs, links,
                    artifacts, runVars, cleaned, versionVars, registryVars, host, before >>

\* the NDK's tool directory is removed, or an NDK is installed
ToolDirChange ==
    /\ Changing
    /\ Resolving
    /\ \/ /\ toolDirExists
          /\ toolDirExists' = FALSE
          /\ toolFiles' = {}
       \/ /\ ~toolDirExists
          /\ toolDirExists' = TRUE
          /\ toolFiles' = NdkBinFiles
    /\ fsChanges' = fsChanges + 1
    /\ UNCHANGED << ndkHomeVar, homeIsDir, props, jniDirs, links, artifacts,
                    runVars, cleaned, versionVars, registryVars, host, before >>

\* one call of a lookup method on the Env, with any arguments
Triples ==
    { Target_all[k].triple : k \in KeySet }
    \cup { clang_triple(Target_all[k]) : k \in KeySet }
    \cup { binutils_triple(Target_all[k]) : k \in KeySet }

CallToolDir ==
    /\ env.ok
    /\ lookup' = [Looked("tool_dir", "", "", 0, tool_dir) EXCEPT !.key = ""]
    /\ before' = NoLookup
    /\ UNCHANGED << fsVars, pc, env, command, queue, cur, events, result, cleaned,
                    versionVars, registryVars, host >>

CallCompilerPath ==
    /\ env.ok
    /\ \E c \in Compilers, triple \in Triples, api \in MinApis :
          lookup' = [Looked("compiler", c, triple, api, compiler_path(c, triple, api))
                       EXCEPT !.key = ""]
    /\ before' = NoLookup
    /\ UNCHANGED << fsVars, pc, env, command, queue, cur, events, result, cleaned,
                    versionVars, registryVars, host >>

CallBinutilPath ==
    /\ env.ok
    /\ \E b \in Binutils, triple \in Triples :
          lookup' = [Looked("binutil", b, triple, 0, binutil_path(b, triple))
                       EXCEPT !.key = ""]
    /\ before' = NoLookup
    /\ UNCHANGED << fsVars, pc, env, command, queue, cur, events, result, cleaned,
                    versionVars, registryVars, host >>

\* the states of <ndk-home>/source.properties
Rev(r) == [kind |-> "rev", rev |-> r]

GoodProps == Rev(<< "2", "1", ".", "4", ".", "7", "0", "7", "5", "5", "2", "9" >>)

PropsStates ==
    { [kind |-> k, rev |-> << >>] : k \in { "absent", "malformed", "nokey" } }
    \cup { Rev(r) : r \in InstalledRevisions }

\* Env::version called on the constructed Env
CallVersion ==
    /\ env.ok
    /\ resolved' = Env_version(props)
    /\ UNCHANGED << fsVars, runVars, cleaned, revision, shown, registryVars, host, before >>

\* the lookup made last is made again, with the same arguments
Recall ==
    /\ env.ok
    /\ lookup.kind \in { "tool_dir", "compiler", "binutil" }
    /\ before' = lookup
    /\ lookup' =
          [Looked(lookup.kind, lookup.tool, lookup.triple, lookup.api,
                  CASE lookup.kind = "tool_dir" -> tool_dir
                    [] lookup.kind = "compiler" ->
                          compiler_path(lookup.tool, lookup.triple, lookup.api)
                    [] lookup.kind = "binutil" -> binutil_path(lookup.tool, lookup.triple))
             EXCEPT !.key = ""]
    /\ UNCHANGED << fsVars, pc, env, command, queue, cur, events, result, cleaned,
                    versionVars, registryVars, host >>

\* what source.properties is changed to under a constructed Env: removed,
\* or replaced by that of an older NDK
RewrittenProps ==
    { [kind |-> "absent", rev |-> << >>],
      Rev(<< "1", "8", ".", "1", ".", "5", "0", "6", "3", "0", "4", "5" >>) }

\* between two calls, the file the last lookup tested is removed or created
ProbedFileChange ==
    /\ Changing
    /\ toolDirExists
    /\ Len(lookup.ret.probed) = 2
    /\ LET f == lookup.ret.probed[2]
       IN  toolFiles' = IF f \in toolFiles THEN toolFiles \ { f } ELSE toolFiles \cup { f }
    /\ fsChanges' = fsChanges + 1
    /\ UNCHANGED << ndkHomeVar, homeIsDir, props, toolDirExists, jniDirs, links,
                    artifacts, runVars, cleaned, versionVars, registryVars, host, before >>

\* between two calls, source.properties is removed or rewritten
PropsChange ==
    /\ Changing
    /\ \E p \in RewrittenProps \ { props } : props' = p
    /\ fsChanges' = fsChanges + 1
    /\ UNCHANGED << ndkHomeVar, homeIsDir, toolDirExists, toolFiles, jniDirs, links,
                    artifacts, runVars, cleaned, versionVars, registryVars, host, before >>

\* between two calls, any tool is removed from or added to the tool directory
AnyToolFileChange ==
    /\ Changing
    /\ toolDirExists
    /\ \/ \E f \in toolFiles : toolFiles' = toolFiles \ { f }
       \/ \E f \in NdkBinFiles \ toolFiles : toolFiles' = toolFiles \cup { f }
    /\ fsChanges' = fsChanges + 1
    /\ UNCHANGED << ndkHomeVar, homeIsDir, props, toolDirExists, jniDirs, links,
                    artifacts, runVars, cleaned, versionVars, registryVars, host, before >>

\* between two calls, the tool directory is removed or an NDK is installed
AnyToolDirChange ==
    /\ Changing
    /\ \/ /\ toolDirExists
          /\ toolDirExists' = FALSE
          /\ toolFiles' = {}
       \/ /\ ~toolDirExists
          /\ toolDirExists' = TRUE
          /\ toolFiles' = NdkBinFiles
    /\ fsChanges' = fsChanges + 1
    /\ UNCHANGED << ndkHomeVar, homeIsDir, props, jniDirs, links, artifacts,
                    runVars, cleaned, versionVars, registryVars, host, before >>

\* a build output is deleted (`cargo clean`, a renamed target)
ArtifactRemoved ==
    /\ Changing
    /\ \E p \in artifacts : artifacts' = artifacts \ { p }
    /\ fsChanges' = fsChanges + 1
    /\ UNCHANGED << ndkHomeVar, homeIsDir, props, toolDirExists, toolFiles, jniDirs,
                    links, runVars, cleaned, versionVars, registryVars, host, before >>

-----------------------------------------------------------------------------
(* Initial states *)

NoLinks == [a \in Abis |-> "none"]

DebugSource(k) == SourcePath(Target_all[k], "debug")

\* what earlier builds left under jniLibs: [links, artifacts]
LinkStates ==
    { [links |-> NoLinks, artifacts |-> {}],
      [links |-> NoLinks, artifacts |-> AllSources],
      [links |-> [NoLinks EXCEPT !["armeabi-v7a"] = StaleSource], artifacts |-> {}],
      [links |-> [NoLinks EXCEPT !["arm64-v8a"] = DebugSource("aarch64")],
       artifacts |-> { DebugSource("aarch64") }],
      [links |-> [NoLinks EXCEPT !["arm64-v8a"] = DebugSource("aarch64"),
                                 !["armeabi-v7a"] = StaleSource,
                                 !["x86_64"] = DebugSource("x86_64")],
       artifacts |-> { DebugSource("aarch64") }],
      [links |-> [NoLinks EXCEPT !["x86"] = "file",
                                 !["armeabi-v7a"] = DebugSource("armv7"),
                                 !["x86_64"] = DebugSource("x86_64")],
       artifacts |-> {}] }

InitRunVars ==
    /\ pc = "start"
    /\ env = NoEnv
    /\ command = NoCommand
    /\ queue = << >>
    /\ cur = "none"
    /\ lookup = NoLookup
    /\ events = << >>
    /\ result = NoResult
    /\ cleaned = NoClean

\* a working NDK installation
GoodNdk ==
    /\ ndkHomeVar = "set"
    /\ homeIsDir = TRUE
    /\ props = GoodProps
    /\ toolDirExists = TRUE
    /\ toolFiles = NdkBinFiles

\* a project nothing was built in yet
FreshProject ==
    /\ links = NoLinks
    /\ artifacts = {}
    /\ jniDirs = {}

\* an installation with any environment variable, NDK directory and
\* properties file, or one with any one thing wrong in its tool directory
Init ==
    /\ InitRunVars
    /\ InitVersionVars
    /\ InitRegistryVars
    /\ host = BuildHost
    /\ before = NoLookup
    /\ fsChanges = 0
    /\ FreshProject
    /\ \/ /\ ndkHomeVar \in { "unset", "set" }
          /\ homeIsDir \in BOOLEAN
          /\ ndkHomeVar = "unset" => ~homeIsDir
          /\ props \in PropsStates
          /\ ~homeIsDir => props.kind = "absent"
          /\ toolDirExists = homeIsDir
          /\ toolFiles = IF homeIsDir THEN NdkBinFiles ELSE {}
       \/ /\ ndkHomeVar = "set"
          /\ homeIsDir = TRUE
          /\ props = GoodProps
          /\ \/ /\ toolDirExists = FALSE
                /\ toolFiles = {}
             \/ /\ toolDirExists = TRUE
                /\ \E f \in NdkBinFiles : toolFiles = NdkBinFiles \ { f }

Next ==
    \/ EnvNew
    \/ Dispatch
    \/ LoadConfig
    \/ NextTarget
    \/ ResolveAr
    \/ ResolveCc
    \/ ResolveCxx
    \/ Spawn
    \/ Wait
    \/ Place
    \/ ToolFileChange
    \/ ToolDirChange
    \/ ArtifactRemoved

Spec == Init /\ [][Next]_vars

-----------------------------------------------------------------------------
(* The specification of builds in a project with a history: a working NDK,
   and a jniLibs tree that earlier builds left behind *)

InitPlacement ==
    /\ InitRunVars
    /\ InitVersionVars
    /\ InitRegistryVars
    /\ host = BuildHost
    /\ before = NoLookup
    /\ fsChanges = 0
    /\ GoodNdk
    /\ \E s \in LinkStates :
          /\ links = s.links
          /\ artifacts = s.artifacts
          /\ jniDirs = { a \in Abis : s.links[a] /= "none" }

NextPlacement ==
    \/ EnvNew
    \/ Dispatch
    \/ LoadConfig
    \/ NextTarget
    \/ ResolveAr
    \/ ResolveCc
    \/ ResolveCxx
    \/ Spawn
    \/ Wait
    \/ Place
    \/ CleanJnilibs
    \/ ArtifactRemoved

SpecPlacement == InitPlacement /\ [][NextPlacement]_vars

-----------------------------------------------------------------------------
(* The specification of the Env's lookup methods on their own: an Env was
   constructed, and its methods are called with any arguments, in any order,
   while the tool directory changes *)

InitLookup ==
    /\ InitVersionVars
    /\ InitRegistryVars
    /\ host = BuildHost
    /\ before = NoLookup
    /\ pc = "env"
    /\ env = [ok |-> TRUE, ndk_home |-> NdkHome]
    /\ command = NoCommand
    /\ queue = << >>
    /\ cur = "none"
    /\ lookup = NoLookup
    /\ events = << >>
    /\ result = NoResult
    /\ cleaned = NoClean
    /\ fsChanges = 0
    /\ FreshProject
    /\ ndkHomeVar = "set"
    /\ homeIsDir = TRUE
    /\ props = GoodProps
    /\ \/ /\ toolDirExists = FALSE
          /\ toolFiles = {}
       \/ /\ toolDirExists = TRUE
          /\ toolFiles \in { NdkBinFiles, {} }

NextLookup ==
    \/ CallToolDir
    \/ CallCompilerPath
    \/ CallBinutilPath
    \/ AnyToolFileChange
    \/ AnyToolDirChange

SpecLookup == InitLookup /\ [][NextLookup]_vars

-----------------------------------------------------------------------------
(* The specification of the version value on its own *)

InitVersion ==
    /\ InitRunVars
    /\ InitRegistryVars
    /\ host = BuildHost
    /\ before = NoLookup
    /\ \/ /\ revision \in Revisions
          /\ resolved = Pending
          /\ shown = NoShown
       \/ /\ revision = << >>
          /\ resolved = NoResolution
          /\ \E v \in Versions : shown = ToShow(v)
    /\ fsChanges = 0
    /\ GoodNdk
    /\ FreshProject

NextVersion ==
    \/ ResolveRevision
    \/ DisplayVersion

SpecVersion == InitVersion /\ [][NextVersion]_vars

-----------------------------------------------------------------------------
(* The specification of repeated calls on one Env: its methods are called
   again and again while the NDK directory changes under it *)

InitCalls ==
    /\ InitVersionVars
    /\ InitRegistryVars
    /\ host = BuildHost
    /\ before = NoLookup
    /\ pc = "env"
    /\ env = [ok |-> TRUE, ndk_home |-> NdkHome]
    /\ command = NoCommand
    /\ queue = << >>
    /\ cur = "none"
    /\ lookup = NoLookup
    /\ events = << >>
    /\ result = NoResult
    /\ cleaned = NoClean
    /\ fsChanges = 0
    /\ FreshProject
    /\ GoodNdk

NextCalls ==
    \/ CallVersion
    \/ CallToolDir
    \/ CallCompilerPath
    \/ CallBinutilPath
    \/ Recall
    \/ PropsChange
    \/ ProbedFileChange
    \/ AnyToolDirChange

SpecCalls == InitCalls /\ [][NextCalls]_vars

-----------------------------------------------------------------------------
(* The specification of the program built for any host: where a host_tag
   function exists the program builds and an Env's lookup methods are called;
   where none exists the use in tool_dir does not compile *)

\* compilation of ndk.rs for the host: the #[cfg] attributes select the
\* host_tag function that tool_dir calls
Build ==
    /\ pc = "cfg"
    /\ IF host_tag(host).some
       THEN /\ pc' = "env"
            /\ env' = [ok |-> TRUE, ndk_home |-> NdkHome]
       ELSE /\ pc' = "nobuild"
            /\ env' = env
    /\ UNCHANGED << fsVars, command, queue, cur, lookup, events, result, cleaned,
                    versionVars, registryVars, host, before >>

InitHost ==
    /\ InitVersionVars
    /\ InitRegistryVars
    /\ host \in Hosts
    /\ before = NoLookup
    /\ pc = "cfg"
    /\ env = NoEnv
    /\ command = NoCommand
    /\ queue = << >>
    /\ cur = "none"
    /\ lookup = NoLookup
    /\ events = << >>
    /\ result = NoResult
    /\ cleaned = NoClean
    /\ fsChanges = 0
    /\ FreshProject
    /\ ndkHomeVar = "set"
    /\ homeIsDir = TRUE
    /\ props = GoodProps
    /\ toolDirExists = TRUE
    /\ toolFiles = NdkBinFiles

NextHost ==
    \/ Build
    \/ CallToolDir
    \/ CallCompilerPath
    \/ CallBinutilPath
    \/ AnyToolFileChange
    \/ AnyToolDirChange

SpecHost == InitHost /\ [][NextHost]_vars

-----------------------------------------------------------------------------
(* The specification of the target registry on its own: all() and for_abi
   are called with any strings, in any order *)

InitRegistry ==
    /\ InitRunVars
    /\ InitVersionVars
    /\ InitRegistryVars
    /\ host = BuildHost
    /\ before = NoLookup
    /\ fsChanges = 0
    /\ GoodNdk
    /\ FreshProject

NextRegistry ==
    \/ CallAll
    \/ CallForAbi

SpecRegistry == InitRegistry /\ [][NextRegistry]_vars

-----------------------------------------------------------------------------
(* Claims *)

Settled(r) == r.kind /= "none" /\ r.kind /= "pending"

Ok(str) == [kind |-> "ok", str |-> str]

\* C1, as stated: minor 0 renders "r<major>"; a minor in [1, 26) renders
\* "r<major>" and the letter 'a' + (minor - 1), so that minor 1 is 'a';
\* a minor from 26 on panics
C1_LetterIsMinorMinusOne ==
    Settled(shown.out) =>
        LET major == "r" \o ToString(shown.of.major)
            minor == shown.of.minor
        IN  /\ minor = 0 => shown.out = Ok(major)
            /\ minor \in 1..25 => shown.out = Ok(major \o Letters[minor])
            /\ minor >= 26 => shown.out.kind = "panic"

\* C1, amended: minor 0 renders "r<major>"; a minor in [1, 26) renders
\* "r<major>" and the letter 'a' + minor, so that minor 1 is 'b', minor 4 is
\* 'e' and minor 25 is 'z'; a minor from 26 on panics
C1_LetterIsMinor ==
    Settled(shown.out) =>
        LET major == "r" \o ToString(shown.of.major)
            minor == shown.of.minor
        IN  /\ minor = 0 => shown.out = Ok(major)
            /\ minor \in 1..25 => shown.out = Ok(major \o Letters[minor + 1])
            /\ minor >= 26 => shown.out.kind = "panic"

\* C1, witness: version (19, 1) was displayed, as "r19b"
C1_Witness ==
    /\ shown.of = [major |-> 19, minor |-> 1]
    /\ shown.out = Ok("r19b")

R21_4_7075529 == << "2", "1", ".", "4", ".", "7", "0", "7", "5", "5", "2", "9" >>

\* C2: a revision with at least two components whose first two parse as u32
\* resolves to the Version of these two, whatever follows them; and
\* "21.4.7075529" resolves to (21, 4), displayed as "r21e"
C2_FirstTwoComponents ==
    Settled(resolved) =>
        LET comps == SplitDot(revision)
        IN  /\ (Len(comps) >= 2 /\ ParseU32(comps[1]).ok /\ ParseU32(comps[2]).ok)
                  => /\ resolved.kind = "Ok"
                     /\ resolved.version = [major |-> ParseU32(comps[1]).val,
                                            minor |-> ParseU32(comps[2]).val]
            /\ revision = R21_4_7075529
                  => /\ resolved.kind = "Ok"
                     /\ resolved.version = [major |-> 21, minor |-> 4]
                     /\ shown.of = [major |-> 21, minor |-> 4]
                     /\ Settled(shown.out) => shown.out = Ok("r21e")

\* C2, witness: "21.4.7075529" was resolved and displayed as "r21e"
C2_Witness ==
    /\ revision = R21_4_7075529
    /\ resolved.kind = "Ok"
    /\ shown.out = Ok("r21e")

\* C3: an Env exists only for a resolved version >= (19, 0), major first; a
\* resolved version below it gives VersionTooLow with that version and
\* (19, 0); and when construction failed the run is over with no command
\* chosen, no command body run, no tool looked up, no process started and
\* nothing under jniLibs touched
C3_MinimumVersionGate ==
    LET v == Env_version(props)
        below == v.version.major < 19 \/ (v.version.major = 19 /\ v.version.minor < 0)
    IN  /\ env.ok => v.kind = "Ok" /\ ~below
        /\ (ndkHomeVar = "set" /\ homeIsDir /\ v.kind = "Ok" /\ below /\ pc /= "start")
              => result = [NoResult EXCEPT !.kind = "EnvInitFailed",
                                           !.err = "VersionTooLow",
                                           !.have = v.version,
                                           !.need = [major |-> 19, minor |-> 0]]
        /\ result.kind = "EnvInitFailed"
              => /\ pc = "done"
                 /\ ~env.ok
                 /\ command = NoCommand
                 /\ cur = "none"
                 /\ lookup = NoLookup
                 /\ \A i \in 1..Len(events) : events[i].step = "open_props"
                 /\ links = NoLinks
                 /\ jniDirs = {}
                 /\ artifacts = {}

\* C3, witness: NDK 18.1 was refused with VersionTooLow
C3_Witness ==
    /\ result.kind = "EnvInitFailed"
    /\ result.err = "VersionTooLow"
    /\ result.have = [major |-> 18, minor |-> 1]
    /\ result.need = [major |-> 19, minor |-> 0]

\* C4, as stated: every archiver lookup of a registered target uses the
\* target's canonical triple (binutils_triple() = triple)
C4_BinutilsKeepCanonical ==
    (lookup.kind = "binutil" /\ lookup.key \in KeySet)
        => lookup.triple = Target_all[lookup.key].triple

\* C4, amended: each lookup triple is the override when there is one and the
\* canonical triple when there is none; armv7 overrides both, its compiler
\* lookups use "armv7a-linux-androideabi" and its archiver lookups
\* "arm-linux-androideabi", neither its canonical triple; for the other three
\* targets both lookups use the canonical triple
C4_EffectiveTriples ==
    lookup.key \in KeySet =>
        LET t == Target_all[lookup.key]
        IN  /\ lookup.kind = "binutil" =>
                 /\ lookup.triple = IF t.binutils_triple_override.some
                                    THEN t.binutils_triple_override.val ELSE t.triple
                 /\ lookup.triple = IF lookup.key = "armv7"
                                    THEN "arm-linux-androideabi" ELSE t.triple
            /\ lookup.kind = "compiler" =>
                 /\ lookup.triple = IF t.clang_triple_override.some
                                    THEN t.clang_triple_override.val ELSE t.triple
                 /\ lookup.triple = IF lookup.key = "armv7"
                                    THEN "armv7a-linux-androideabi" ELSE t.triple
            /\ lookup.key = "armv7" => lookup.triple /= t.triple

\* C4, witness: armv7's archiver was looked up, and found, under
\* "arm-linux-androideabi"
C4_Witness ==
    /\ lookup.kind = "binutil"
    /\ lookup.key = "armv7"
    /\ lookup.triple = "arm-linux-androideabi"
    /\ lookup.ret.ok

Broken(ls, arts, a) == ls[a] /= "none" /\ ls[a] /= "file" /\ ls[a] \notin arts

\* C5, as stated: while a build compiles a target, no registered target has a
\* symlink to a missing path at its jniLibs destination
C5_PrunedBeforeBuild ==
    (command.mode = "build" /\ pc \in { "ar", "cc", "cxx", "spawn", "wait" })
        => \A a \in Abis : ~Broken(links, artifacts, a)

\* C5, amended: a clean_jnilibs call that returns Ok removes exactly the
\* symlinks whose target does not exist, for every registered target, and
\* one that fails removes only such symlinks; the steps of a build never
\* prune: the only link a run changes is the one of the target it places
C5_CleanPrunes ==
    [][ /\ cleaned' /= cleaned =>
             /\ cleaned'.kind = "Ok" =>
                   \A a \in Abis :
                      links'[a] = IF Broken(links, artifacts, a) THEN "none" ELSE links[a]
             /\ \A a \in Abis :
                   links'[a] /= links[a] => Broken(links, artifacts, a) /\ links'[a] = "none"
        /\ cleaned' = cleaned =>
             \A a \in Abis :
                links'[a] /= links[a] => pc = "place" /\ a = Target_all[cur].abi
      ]_vars

\* C5, witness: one clean_jnilibs call removed two stale symlinks and kept a
\* live one
C5_Witness ==
    /\ cleaned.kind = "Ok"
    /\ Cardinality(cleaned.removed) >= 2
    /\ \E a \in Abis : links[a] /= "none" /\ links[a] \in artifacts
    /\ \A a \in cleaned.removed : links[a] = "none"

\* C6, as stated: fewer than two components give TooFewComponents; two or
\* more with a first or second that is no u32 give ComponentNotNumerical
C6_ErrorKindByCount ==
    Settled(resolved) =>
        LET comps == SplitDot(revision)
        IN  /\ Len(comps) < 2 => resolved.kind = "TooFewComponents"
            /\ (Len(comps) >= 2 /\ (~ParseU32(comps[1]).ok \/ ~ParseU32(comps[2]).ok))
                  => resolved.kind = "ComponentNotNumerical"
            /\ resolved.kind \in { "TooFewComponents", "ComponentNotNumerical" }
                  => resolved.version = NoVersion /\ shown = NoShown

\* C6, amended: a single component that parses as u32 gives
\* TooFewComponents; a single component that does not gives
\* ComponentNotNumerical naming it; two or more components with a first or
\* second that is no u32 give ComponentNotNumerical naming the first such;
\* none of these yields a Version
C6_ErrorKinds ==
    Settled(resolved) =>
        LET comps == SplitDot(revision)
        IN  /\ (Len(comps) < 2 /\ ParseU32(comps[1]).ok)
                  => resolved.kind = "TooFewComponents"
            /\ (Len(comps) < 2 /\ ~ParseU32(comps[1]).ok)
                  => resolved.kind = "ComponentNotNumerical" /\ resolved.component = comps[1]
            /\ (Len(comps) >= 2 /\ ~ParseU32(comps[1]).ok)
                  => resolved.kind = "ComponentNotNumerical" /\ resolved.component = comps[1]
            /\ (Len(comps) >= 2 /\ ParseU32(comps[1]).ok /\ ~ParseU32(comps[2]).ok)
                  => resolved.kind = "ComponentNotNumerical" /\ resolved.component = comps[2]
            /\ resolved.kind \in { "TooFewComponents", "ComponentNotNumerical" }
                  => resolved.version = NoVersion /\ shown = NoShown

\* C6, witness: the single component "r21e" was refused as not numerical
C6_Witness ==
    /\ revision = << "r", "2", "1", "e" >>
    /\ resolved.kind = "ComponentNotNumerical"
    /\ resolved.component = revision

\* C7: with the tool directory present, a compiler lookup probes
\* <tool-dir>/<triple><api>-<clang|clang++> and a binutil lookup
\* <tool-dir>/<triple>-<ar|ld>; it returns that path when a file is there
\* and otherwise MissingTool with the tool's name and that path
C7_ProbedPath ==
    (lookup.kind \in { "compiler", "binutil" } /\ lookup.dirThere) =>
        LET tool == CASE lookup.tool = "Clang" -> "clang"
                      [] lookup.tool = "Clangxx" -> "clang++"
                      [] lookup.tool = "Ar" -> "ar"
                      [] lookup.tool = "Ld" -> "ld"
            file == IF lookup.kind = "compiler"
                    THEN ((lookup.triple \o ToString(lookup.api)) \o "-") \o tool
                    ELSE (lookup.triple \o "-") \o tool
            probed == "/opt/ndk/toolchains/llvm/prebuilt/linux-x86_64/bin/" \o file
        IN  /\ lookup.ret.path = probed
            /\ lookup.ret.ok <=> probed \in lookup.filesThere
            /\ lookup.ret.ok => lookup.ret.name = ""
            /\ ~lookup.ret.ok => lookup.ret.name = tool
            /\ (lookup.tool = "Clang" /\ lookup.triple = "armv7a-linux-androideabi"
                  /\ lookup.api = 21 /\ ~lookup.ret.ok)
                  => lookup.ret.path =
                        "/opt/ndk/toolchains/llvm/prebuilt/linux-x86_64/bin/armv7a-linux-androideabi21-clang"

\* C7, witness: clang for "armv7a-linux-androideabi" at API 21 was looked up
\* in an existing tool directory and was missing
C7_Witness ==
    /\ lookup.kind = "compiler"
    /\ lookup.tool = "Clang"
    /\ lookup.triple = "armv7a-linux-androideabi"
    /\ lookup.api = 21
    /\ lookup.dirThere
    /\ ~lookup.ret.ok

ResolutionSteps == { "ar", "cc", "cxx" }

Last == events[Len(events)]

\* C8: a failed tool resolution ends the operation with MissingTool at once,
\* so no process is started after it; a process is started only after the
\* archiver, the C compiler and the C++ compiler of the same target were
\* resolved, in this order; and CargoFailed follows a failed start or exit
\* and carries the mode of the command
C8_ResolutionBeforeSpawn ==
    /\ \A i \in 1..Len(events) :
          /\ (events[i].step \in ResolutionSteps /\ ~events[i].ok)
                => /\ i = Len(events)
                   /\ pc = "done"
                   /\ result.err = "MissingTool"
          /\ events[i].step = "spawn"
                => /\ i > 3
                   /\ events[i - 3] = Event("ar", events[i].key, TRUE)
                   /\ events[i - 2] = Event("cc", events[i].key, TRUE)
                   /\ events[i - 1] = Event("cxx", events[i].key, TRUE)
          /\ events[i].step = "wait"
                => i > 1 /\ events[i - 1] = Event("spawn", events[i].key, TRUE)
    /\ result.err = "MissingTool"
          => /\ events /= << >>
             /\ Last.step \in ResolutionSteps
             /\ ~Last.ok
             /\ result.kind = IF command.mode = "check" THEN "CheckFailed" ELSE "BuildFailed"
             /\ result.name = lookup.ret.name
             /\ result.path = lookup.ret.path
    /\ result.err = "CargoFailed"
          => /\ events /= << >>
             /\ Last.step \in { "spawn", "wait" }
             /\ ~Last.ok
             /\ command.mode \in CargoModes
             /\ result.mode = command.mode
             /\ result.kind = IF command.mode = "check" THEN "CheckFailed" ELSE "BuildFailed"

\* C8, witness: a build ended with MissingTool at its third resolution, the
\* C++ compiler
C8_Witness ==
    /\ command.mode = "build"
    /\ result.err = "MissingTool"
    /\ events /= << >>
    /\ Last = Event("cxx", cur, FALSE)

BuildSteps == << "ar", "cc", "cxx", "spawn", "wait", "mkdir", "exists", "symlink" >>

\* the last events are one complete build of target k
EndsWithBuildOf(k) ==
    /\ Len(events) >= Len(BuildSteps)
    /\ \A j \in 1..Len(BuildSteps) :
          events[Len(events) - Len(BuildSteps) + j] = Event(BuildSteps[j], k, TRUE)

\* C9: in a build, placement starts only right after a successful exit, the
\* exit is waited for only after a successful start, and the start follows
\* the last resolution; a failed compile is BuildFailed with no placement
\* step; and the build is Ok exactly when the last thing done is a
\* successful symlink that ends the full sequence of steps
C9_BuildOrder ==
    /\ \A i \in 1..Len(events) :
          /\ events[i].step = "mkdir"
                => /\ command.mode = "build"
                   /\ i > 1
                   /\ events[i - 1] = Event("wait", events[i].key, TRUE)
          /\ events[i].step \in { "exists", "symlink" }
                => i > 1 /\ events[i - 1].ok /\ events[i - 1].key = events[i].key
          /\ events[i].step = "wait"
                => i > 1 /\ events[i - 1] = Event("spawn", events[i].key, TRUE)
          /\ events[i].step = "spawn"
                => i > 1 /\ events[i - 1] = Event("cxx", events[i].key, TRUE)
    /\ result.wrap = "BuildFailed"
          => /\ events /= << >>
             /\ Last.step \in ResolutionSteps \cup { "spawn", "wait" }
             /\ ~Last.ok
    /\ (command.mode = "build" /\ result.kind = "Ok")
          => events /= << >> /\ EndsWithBuildOf(Last.key)
    /\ (command.mode = "build" /\ pc = "target" /\ cur /= "none") => EndsWithBuildOf(cur)
    /\ (command.mode = "build" /\ events /= << >> /\ Last.step = "symlink" /\ Last.ok)
          => result.kind \in { "none", "Ok" }
    /\ (command.mode = "build" /\ events /= << >> /\ ~Last.ok)
          => pc = "done" /\ result.kind = "BuildFailed"

\* C9, witness: a build command ended Ok
C9_Witness ==
    /\ command.mode = "build"
    /\ pc = "done"
    /\ result.kind = "Ok"
    /\ links["arm64-v8a"] = "/work/demo/target/aarch64-linux-android/debug/libdemo_app.so"
    /\ EndsWithBuildOf("aarch64")

\* the source path, written out
ExpectedSource ==
    (((("/work/demo/target/" \o Target_all[cur].triple) \o "/") \o command.profile)
       \o "/lib") \o "demo_app.so"

Placing == pc = "place" /\ pc' /= "place"

\* C10, as stated: placement with nothing at the source path fails with
\* SourceMissing carrying that path, as LibSymlinkFailed, and leaves the
\* links as they were
C10_SourceMissingAlways ==
    [][ (Placing /\ ExpectedSource \notin artifacts)
           => /\ result'.err = "SourceMissing"
              /\ result'.path = ExpectedSource
              /\ result'.wrap = "LibSymlinkFailed"
              /\ links' = links
      ]_vars

\* C10, amended: placement with nothing at the source path fails, as
\* LibSymlinkFailed, and leaves the links as they were; it fails with
\* SourceMissing carrying that path when the jniLibs/<abi> directory could be
\* created, and with JniLibsSubDirCreationFailed when it could not
C10_SourceMissing ==
    [][ (Placing /\ ExpectedSource \notin artifacts)
           => /\ pc' = "done"
              /\ result'.kind = "BuildFailed"
              /\ result'.wrap = "LibSymlinkFailed"
              /\ links' = links
              /\ Len(events') > Len(events)
              /\ events'[Len(events) + 1].step = "mkdir"
              /\ IF events'[Len(events) + 1].ok
                 THEN /\ result'.err = "SourceMissing"
                      /\ result'.path = ExpectedSource
                 ELSE /\ result'.err = "JniLibsSubDirCreationFailed"
      ]_vars

\* C10, witness: placement failed with SourceMissing for armv7's debug
\* library, and the symlink that was at the destination is still there
C10_Witness ==
    /\ result.err = "SourceMissing"
    /\ cur = "armv7"
    /\ result.path = "/work/demo/target/armv7-linux-androideabi/debug/libdemo_app.so"
    /\ links["armeabi-v7a"] = StaleSource

RegisteredAbi ==
    [aarch64 |-> "arm64-v8a", armv7 |-> "armeabi-v7a", i686 |-> "x86", x86_64 |-> "x86_64"]

\* C11: the map all() returns has exactly the keys aarch64, armv7, i686 and
\* x86_64 and the same content on every call; the ABI names of its entries
\* are pairwise distinct; for_abi of an entry's ABI name returns that entry,
\* and for_abi of any other string returns None
C11_RegistryLookup ==
    /\ TARGETS.set <=> asked /= << >>
    /\ \A i \in 1..Len(asked) :
          LET m == asked[i].all
              q == asked[i]
          IN  /\ DOMAIN m = { "aarch64", "armv7", "i686", "x86_64" }
              /\ m = asked[1].all
              /\ m = TARGETS.map
              /\ \A k \in DOMAIN m : m[k].abi = RegisteredAbi[k]
              /\ \A k1, k2 \in DOMAIN m : k1 /= k2 => m[k1].abi /= m[k2].abi
              /\ q.fn = "for_abi" =>
                    /\ \A k \in DOMAIN m :
                          q.abi = m[k].abi => q.ret = [some |-> TRUE, key |-> k, target |-> m[k]]
                    /\ q.abi \notin { "arm64-v8a", "armeabi-v7a", "x86", "x86_64" }
                          => ~q.ret.some
                    /\ q.ret.some => q.ret.target.abi = q.abi

\* C11, witness: for_abi found aarch64's entry under "arm64-v8a" and then
\* returned None for "nonexistent-abi"
C11_Witness ==
    /\ Len(asked) >= 2
    /\ asked[1].fn = "for_abi"
    /\ asked[1].abi = "arm64-v8a"
    /\ asked[1].ret.some
    /\ asked[1].ret.key = "aarch64"
    /\ asked[1].ret.target.triple = "aarch64-linux-android"
    /\ asked[2].fn = "for_abi"
    /\ asked[2].abi = "nonexistent-abi"
    /\ ~asked[2].ret.some

VersionErrors ==
    { "OpenFailed", "ParseFailed", "VersionMissing", "ComponentNotNumerical",
      "TooFewComponents" }

\* C12: once Env::new has run, an absent NDK_HOME has given NdkHomeNotSet
\* and an NDK_HOME that names no directory NdkHomeNotADir, in both cases
\* without source.properties being opened; a version error or VersionTooLow
\* is returned only with NDK_HOME set and naming a directory, after the file
\* was opened
C12_HomeErrorsGateVersion ==
    /\ (pc /= "start" /\ ndkHomeVar = "unset")
          => /\ result = [NoResult EXCEPT !.kind = "EnvInitFailed", !.err = "NdkHomeNotSet"]
             /\ events = << >>
    /\ (pc /= "start" /\ ndkHomeVar = "set" /\ ~homeIsDir)
          => /\ result = [NoResult EXCEPT !.kind = "EnvInitFailed", !.err = "NdkHomeNotADir"]
             /\ events = << >>
    /\ result.kind = "EnvInitFailed"
          => /\ result.err \in VersionErrors \cup { "VersionTooLow", "NdkHomeNotSet", "NdkHomeNotADir" }
             /\ result.err \in VersionErrors \cup { "VersionTooLow" }
                   => /\ ndkHomeVar = "set"
                      /\ homeIsDir
                      /\ events = << [step |-> "open_props", key |-> "", ok |-> TRUE] >>
    /\ \A i \in 1..Len(events) :
          events[i].step = "open_props" => i = 1 /\ ndkHomeVar = "set" /\ homeIsDir

\* C12, witness: NDK_HOME was set to something that is no directory, and
\* construction failed with NdkHomeNotADir before anything was opened
C12_Witness ==
    /\ ndkHomeVar = "set"
    /\ ~homeIsDir
    /\ pc = "done"
    /\ result.err = "NdkHomeNotADir"
    /\ events = << >>

\* C13: the program builds for each of the four supported hosts, and its
\* tool directory is <root>/toolchains/llvm/prebuilt/<host-tag>/bin with the
\* host tag darwin-x86_64 on macOS, linux-x86_64 on Linux, windows on 32-bit
\* Windows and windows-x86_64 on 64-bit Windows
C13_HostTags ==
    LET supported == host.os \in { "macos", "linux" } \/ host.os = "windows"
        tag == CASE host.os = "macos" -> "darwin-x86_64"
                 [] host.os = "linux" -> "linux-x86_64"
                 [] host.os = "windows" /\ host.width = 32 -> "windows"
                 [] host.os = "windows" /\ host.width = 64 -> "windows-x86_64"
    IN  (supported /\ pc /= "cfg")
           => /\ pc = "env"
              /\ env.ok
              /\ lookup.kind = "tool_dir"
                    => lookup.ret.path = (("/opt/ndk/toolchains/llvm/prebuilt/" \o tag) \o "/bin")

\* C14: when the tool directory is not there, tool_dir and every
\* compiler_path and binutil_path call, whatever its arguments, return the
\* same MissingTool, named "literally all of them", whose tried_path is the
\* tool directory; the directory is the only path tested
C14_MissingToolDir ==
    (lookup.kind \in { "tool_dir", "compiler", "binutil" } /\ ~lookup.dirThere) =>
        /\ ~lookup.ret.ok
        /\ lookup.ret.name = "literally all of them"
        /\ lookup.ret.path = "/opt/ndk/toolchains/llvm/prebuilt/linux-x86_64/bin"
        /\ lookup.ret.probed = << "/opt/ndk/toolchains/llvm/prebuilt/linux-x86_64/bin" >>

\* C14, witness: clang++ was looked up with no tool directory and the
\* generic MissingTool came back
C14_Witness ==
    /\ lookup.kind = "compiler"
    /\ lookup.tool = "Clangxx"
    /\ ~lookup.dirThere
    /\ ~lookup.ret.ok
    /\ lookup.ret.name = "literally all of them"

\* the file a lookup q has to test, written out
FileOf(q) ==
    LET tool == CASE q.tool = "Clang" -> "clang"
                  [] q.tool = "Clangxx" -> "clang++"
                  [] q.tool = "Ar" -> "ar"
                  [] q.tool = "Ld" -> "ld"
                  [] OTHER -> ""
    IN  "/opt/ndk/toolchains/llvm/prebuilt/linux-x86_64/bin/" \o
           (IF q.kind = "compiler"
            THEN ((q.triple \o ToString(q.api)) \o "-") \o tool
            ELSE (q.triple \o "-") \o tool)

\* C15: calls on an Env never change its root or the filesystem, and each
\* call returns what the filesystem holds when it is made, whatever the call
\* before returned: tool_dir succeeds exactly when the directory is there, a
\* compiler or binutil lookup exactly when the directory and the file are
\* there, and version reads what source.properties holds then
C15_NoCaching ==
    [][ /\ env.ok => env' = env /\ env.ndk_home = "/opt/ndk"
        /\ (lookup' /= lookup \/ before' /= before \/ resolved' /= resolved)
              => /\ toolDirExists' = toolDirExists
                 /\ toolFiles' = toolFiles
                 /\ props' = props
        /\ (lookup' /= lookup \/ before' /= before)
              => /\ lookup'.ret.ok <=>
                       /\ toolDirExists
                       /\ lookup'.kind = "tool_dir" \/ FileOf(lookup') \in toolFiles
                 /\ lookup'.dirThere = toolDirExists
        /\ resolved' /= resolved
              => /\ props.kind = "absent" => resolved'.kind = "OpenFailed"
                 /\ props.kind = "rev" => resolved'.kind = "Ok"
                 /\ (props.kind = "rev" /\ props.rev = R21_4_7075529)
                       => resolved'.version = [major |-> 21, minor |-> 4]
                 /\ (props.kind = "rev" /\ props.rev /= R21_4_7075529)
                       => resolved'.version = [major |-> 18, minor |-> 1]
      ]_vars

\* C15, witness: a compiler lookup that had returned the path was made
\* again after the file was removed, and returned MissingTool
C15_Witness ==
    /\ before.kind = "compiler"
    /\ before.ret.ok
    /\ lookup.kind = "compiler"
    /\ lookup.tool = before.tool
    /\ lookup.triple = before.triple
    /\ lookup.api = before.api
    /\ lookup.dirThere
    /\ ~lookup.ret.ok
    /\ lookup.ret.path = before.ret.path
    /\ env.ndk_home = "/opt/ndk"

\* the events a step appended
Appended == SubSeq(events', Len(events) + 1, Len(events'))

\* C16: placement creates jniLibs/<abi> first and tests the source after:
\* every placement starts with the directory creation; one that returns
\* SourceMissing has created the directory, tested the source and left the
\* links alone; one that returns JniLibsSubDirCreationFailed has done nothing
\* else: the source was not tested, no directory is new and no link changed
C16_DirectoryBeforeSource ==
    [][ Placing =>
          LET abi == Target_all[cur].abi
          IN  /\ Appended /= << >>
              /\ Appended[1].step = "mkdir"
              /\ \A i \in 1..Len(Appended) :
                    Appended[i].step = "exists" => i = 2 /\ Appended[1].ok
              /\ result'.err = "SourceMissing"
                    => /\ abi \in jniDirs'
                       /\ jniDirs' = jniDirs \cup { abi }
                       /\ Appended = << [step |-> "mkdir", key |-> cur, ok |-> TRUE],
                                        [step |-> "exists", key |-> cur, ok |-> FALSE] >>
                       /\ links' = links
              /\ result'.err = "JniLibsSubDirCreationFailed"
                    => /\ Appended = << [step |-> "mkdir", key |-> cur, ok |-> FALSE] >>
                       /\ jniDirs' = jniDirs
                       /\ links' = links
      ]_vars

\* C16, witness: in a project with nothing under jniLibs, placement for
\* aarch64 returned SourceMissing and jniLibs/arm64-v8a is there
C16_Witness ==
    /\ result.err = "SourceMissing"
    /\ cur = "aarch64"
    /\ cleaned = NoClean
    /\ links = NoLinks
    /\ jniDirs = { "arm64-v8a" }

====
